---- MODULE Spec2Model ----
(***************************************************************************)
(* Sign-up / verification state machine of src/screens/SignUp.tsx          *)
(* (CustomSignUp) and the session-gated navigation root of src/App.tsx     *)
(* (AppNavigator).                                                         *)
(*                                                                         *)
(* Text values (email, password, code) are sequences of one-character      *)
(* strings, so that trim(), length and the regular expressions of the      *)
(* source are computed character by character.                             *)
(*                                                                         *)
(* Every async handler invocation is an entry of `ops`: the handler's      *)
(* position (the await it is suspended at), the values its closure         *)
(* captured, and the answer of the awaited remote call once it arrived.    *)
(* The synchronous code between two awaits is one action.  React state     *)
(* set by a handler is rendered before the next user event is delivered,   *)
(* so the `disabled` props are read from the current state.                *)
(***************************************************************************)
EXTENDS Integers, Sequences, FiniteSets, TLC

\* Cap on the handler invocations in flight at the same time.
MaxOps == 2

VARIABLES
    authLoaded,          \* useAuth().isLoaded as AppNavigator sees it
    isSignedIn,          \* useAuth().isSignedIn
    signUpLoaded,        \* useSignUp().isLoaded (signUp and setActive are defined iff it is true)
    mounted,             \* the screens registered under the NavigationContainer now rendered
    email,
    password,
    code,
    agreedToTerms,
    errors,
    passwordStrength,
    pendingVerification,
    loading,
    googleAuth,          \* whether useOAuth gave a startOAuthFlow for oauth_google
    appleAuth,           \* whether useOAuth gave a startOAuthFlow for oauth_apple
    ops,                 \* the async handler invocations in flight
    alerts,              \* the Alert.alert calls of the latest handler invocation
    consoleErrors,       \* the console.error payloads of the latest handler invocation
    nav,                 \* who called router.replace('/home') so far
    backend              \* the identity service: account, code dispatch, sessions

vars == <<authLoaded, isSignedIn, signUpLoaded, mounted, email, password, code,
          agreedToTerms, errors, passwordStrength, pendingVerification, loading,
          googleAuth, appleAuth, ops, alerts, consoleErrors, nav, backend>>

screenState == <<email, password, code, agreedToTerms, errors, passwordStrength,
                 pendingVerification, loading>>

signals == <<authLoaded, isSignedIn, signUpLoaded, mounted>>

-----------------------------------------------------------------------------
\* Characters and text

Whitespace == {" ", "\t", "\n", "\r"}

UpperCase == {"A", "B", "C", "D", "E", "F", "G", "H", "I", "J", "K", "L", "M",
              "N", "O", "P", "Q", "R", "S", "T", "U", "V", "W", "X", "Y", "Z"}

LowerCase == {"a", "b", "c", "d", "e", "f", "g", "h", "i", "j", "k", "l", "m",
              "n", "o", "p", "q", "r", "s", "t", "u", "v", "w", "x", "y", "z"}

Digits == {"0", "1", "2", "3", "4", "5", "6", "7", "8", "9"}

RECURSIVE TrimStart(_)
TrimStart(s) ==
    IF s = <<>> THEN <<>>
    ELSE IF Head(s) \in Whitespace THEN TrimStart(Tail(s))
    ELSE s

RECURSIVE TrimEnd(_)
TrimEnd(s) ==
    IF s = <<>> THEN <<>>
    ELSE IF s[Len(s)] \in Whitespace THEN TrimEnd(SubSeq(s, 1, Len(s) - 1))
    ELSE s

\* String.prototype.trim
Trim(s) == TrimEnd(TrimStart(s))

\* /\S+@\S+\.\S+/.test(s): unanchored
EmailRegexTest(s) ==
    \E i \in 1..Len(s), j \in 1..Len(s) :
        /\ s[i] = "@"
        /\ i > 1
        /\ s[i - 1] \notin Whitespace
        /\ j > i + 1
        /\ s[j] = "."
        /\ \A k \in (i + 1)..(j - 1) : s[k] \notin Whitespace
        /\ j < Len(s)
        /\ s[j + 1] \notin Whitespace

\* /[A-Z]/.test(s)
HasUpperCase(s) == \E i \in 1..Len(s) : s[i] \in UpperCase

\* /[0-9]/.test(s)
HasDigit(s) == \E i \in 1..Len(s) : s[i] \in Digits

\* The symbol test written as /[^A-Za-z]/, which takes a digit for a symbol
HasSymbol_DigitsCount(s) == \E i \in 1..Len(s) : s[i] \notin (UpperCase \cup LowerCase)

\* /[^A-Za-z0-9]/.test(s)
HasSymbol(s) == \E i \in 1..Len(s) : s[i] \notin (UpperCase \cup LowerCase \cup Digits)

MinPasswordLength == 8

\* The password strength effect
PasswordStrength(p) ==
      (IF Len(p) > 0 THEN 1 ELSE 0)
    + (IF Len(p) >= MinPasswordLength THEN 1 ELSE 0)
    + (IF HasUpperCase(p) THEN 1 ELSE 0)
    + (IF HasDigit(p) THEN 1 ELSE 0)
    + (IF HasSymbol(p) THEN 1 ELSE 0)

-----------------------------------------------------------------------------
\* The texts the user types in the state machine's runs

Emails == { <<>>,
            <<"b", "a", "d">>,
            <<"a", "@", "b", ".", "c", "o", "m">> }

Passwords == { <<>>,
               <<"s", "h", "o", "r", "t">>,
               <<"A", "b", "c", "d", "e", "f", "1", "2">> }

Codes == { <<>>, <<" ">>, <<"1", "2", "3", "4", "5", "6">> }

SocialAuthStrategy == {"google", "apple"}

-----------------------------------------------------------------------------
\* Alerts

Alert(title, message) == [title |-> title, message |-> message]

TermsAlert == Alert("Terms Required", "Please agree to terms and privacy policy")
CodeRequiredAlert == Alert("Verification Error", "Please enter the verification code")
AccountCreatedAlert == Alert("Success", "Your account has been created!")
CodeResentAlert == Alert("Success", "A new verification code has been sent")
ResendFailedAlert == Alert("Error", "Failed to resend verification code")
SocialFailedAlert == Alert("Authentication Error", "Failed to sign in. Please try again.")

\* err.errors?.[0]?.message || fallback
\* The catch blocks showing their own text whatever the service said
ErrorMessage_AlwaysFallback(err, fallback) == fallback

ErrorMessage(err, fallback) ==
    IF Len(err) > 0 /\ err[1].message # "" THEN err[1].message ELSE fallback

SignUpErrorAlert(err) == Alert("Sign Up Error", ErrorMessage(err, "Failed to create account"))
VerifyErrorAlert(err) == Alert("Verification Error", ErrorMessage(err, "Failed to verify email"))

\* new Error(`OAuth provider for ${strategy} is not available`)
ProviderUnavailableError(strategy) ==
    IF strategy = "google" THEN "OAuth provider for google is not available"
    ELSE "OAuth provider for apple is not available"

-----------------------------------------------------------------------------
\* Form validation

NoErrors == [email |-> "", password |-> ""]

EmailError(e) ==
    IF Trim(e) = <<>> THEN "Email required"
    ELSE IF ~EmailRegexTest(e) THEN "Invalid email format"
    ELSE ""

PasswordError(p) ==
    IF Trim(p) = <<>> THEN "Password required"
    ELSE IF Len(p) < MinPasswordLength THEN "Password must be at least 8 characters"
    ELSE ""

\* validateForm() with the terms check raising its alert but leaving valid alone
validateForm_ConsentIgnored(e, p, agreed) ==
    [ valid  |-> EmailError(e) = "" /\ PasswordError(p) = "",
      errors |-> [email |-> EmailError(e), password |-> PasswordError(p)],
      alerts |-> IF agreed THEN <<>> ELSE <<TermsAlert>> ]

\* validateForm() returning at the first failing check
validateForm_ShortCircuit(e, p, agreed) ==
    [ valid  |-> EmailError(e) = "" /\ PasswordError(p) = "" /\ agreed,
      errors |-> IF EmailError(e) # ""
                 THEN [email |-> EmailError(e), password |-> ""]
                 ELSE [email |-> "", password |-> PasswordError(p)],
      alerts |-> IF EmailError(e) = "" /\ PasswordError(p) = "" /\ ~agreed
                 THEN <<TermsAlert>> ELSE <<>> ]

\* validateForm(): the value returned, the errors it sets, the alert it raises
validateForm(e, p, agreed) ==
    [ valid  |-> EmailError(e) = "" /\ PasswordError(p) = "" /\ agreed,
      errors |-> [email |-> EmailError(e), password |-> PasswordError(p)],
      alerts |-> IF agreed THEN <<>> ELSE <<TermsAlert>> ]

-----------------------------------------------------------------------------
\* The navigation root

OnboardingScreens == {"SignUp"}

MainScreens == {"MainTabs", "Chat", "FirstMealForm", "UserInfo", "AllergySelection",
                "FinalMealForm", "UserMeals", "MealPlanDetails"}

\* AppNavigator without the isLoaded test
AppNavigator_NoLoadingCheck(loaded, signedIn) ==
    IF ~signedIn THEN OnboardingScreens ELSE MainScreens

\* AppNavigator: the screens of the navigator it renders; none under the spinner
AppNavigator(loaded, signedIn) ==
    IF ~loaded THEN {}
    ELSE IF ~signedIn THEN OnboardingScreens
    ELSE MainScreens

\* CustomSignUp renders its form (not its own spinner) and is on screen
FormShown == "SignUp" \in mounted /\ signUpLoaded

-----------------------------------------------------------------------------
\* The identity service's answers

SessionRefs == {"sess_1", "sess_2"}

BackendMessage == "That email address is taken. Please try another."

NoResp == [state |-> "none", errors |-> <<>>, status |-> "",
           createdSessionId |-> "", setActive |-> FALSE]

Resolved == [state |-> "ok", errors |-> <<>>, status |-> "",
             createdSessionId |-> "", setActive |-> FALSE]

\* A rejection: a network failure (no errors array) or an API error with a message
Rejections ==
    { [NoResp EXCEPT !.state = "rejected", !.errors = errs] :
        errs \in { <<>>, <<[message |-> BackendMessage]>> } }

\* attemptEmailAddressVerification resolves to the sign-up resource: "complete"
\* carries the created session, any other status carries none
AttemptResults ==
    { [Resolved EXCEPT !.status = "complete", !.createdSessionId = sid] :
        sid \in SessionRefs }
    \cup { [Resolved EXCEPT !.status = "missing_requirements"] }

\* startOAuthFlow resolves to { createdSessionId, setActive }, either of them
\* possibly missing (cancelled flow: no session)
FlowResults ==
    { [Resolved EXCEPT !.createdSessionId = sid, !.setActive = act] :
        sid \in SessionRefs \cup {""}, act \in BOOLEAN }

Answers(pc) ==
    IF pc = "attempt" THEN AttemptResults \cup Rejections
    ELSE IF pc = "flow" THEN FlowResults \cup Rejections
    ELSE {Resolved} \cup Rejections

-----------------------------------------------------------------------------
\* Handler invocations

NewOp(kind, pc) ==
    [kind |-> kind, pc |-> pc, emailAddress |-> <<>>, password |-> <<>>,
     code |-> <<>>, strategy |-> "", session |-> "", resp |-> NoResp]

RemoveAt(s, i) == SubSeq(s, 1, i - 1) \o SubSeq(s, i + 1, Len(s))

\* The awaits of the handlers: each is one remote call
RemoteCalls == {"create", "prepare", "attempt", "setActive", "flow"}

\* The remote calls issued and not yet answered
Outstanding == { i \in 1..Len(ops) : ops[i].pc \in RemoteCalls /\ ops[i].resp.state = "none" }

Answered(i, kind, pc) ==
    /\ i \in 1..Len(ops)
    /\ ops[i].kind = kind
    /\ ops[i].pc = pc
    /\ ops[i].resp.state # "none"

-----------------------------------------------------------------------------
Init ==
    /\ authLoaded = FALSE
    /\ isSignedIn = FALSE
    /\ signUpLoaded = FALSE
    /\ mounted = AppNavigator(FALSE, FALSE)
    /\ email = <<>>
    /\ password = <<>>
    /\ code = <<>>
    /\ agreedToTerms = FALSE
    /\ errors = NoErrors
    /\ passwordStrength = 0
    /\ pendingVerification = FALSE
    /\ loading = FALSE
    /\ googleAuth \in BOOLEAN
    /\ appleAuth \in BOOLEAN
    /\ ops = <<>>
    /\ alerts = <<>>
    /\ consoleErrors = <<>>
    /\ nav = {}
    /\ backend = [account |-> FALSE, codeSent |-> FALSE, created |-> {}, active |-> ""]

-----------------------------------------------------------------------------
\* The session-presence signal and the hooks

\* Clerk finishes loading the auth state; a session kept from an earlier run
\* makes the user signed in at once
AuthLoad ==
    /\ ~authLoaded
    /\ authLoaded' = TRUE
    /\ \E sid \in SessionRefs \cup {""} :
        /\ isSignedIn' = (sid # "")
        /\ backend' = [backend EXCEPT !.active = sid]
    /\ mounted' = AppNavigator(authLoaded', isSignedIn')
    /\ UNCHANGED <<signUpLoaded, screenState, googleAuth, appleAuth, ops, alerts,
                   consoleErrors, nav>>

\* useSignUp() becomes loaded: signUp and setActive are defined from here on
SignUpLoad ==
    /\ ~signUpLoaded
    /\ signUpLoaded' = TRUE
    /\ UNCHANGED <<authLoaded, isSignedIn, mounted, screenState, googleAuth, appleAuth,
                   ops, alerts, consoleErrors, nav, backend>>

-----------------------------------------------------------------------------
\* The form's fields

SetEmail(text) ==
    /\ FormShown
    /\ ~pendingVerification
    /\ email' = text
    /\ errors' = IF errors.email # "" THEN [errors EXCEPT !.email = ""] ELSE errors
    /\ UNCHANGED <<signals, password, code, agreedToTerms, passwordStrength,
                   pendingVerification, loading, googleAuth, appleAuth, ops, alerts,
                   consoleErrors, nav, backend>>

\* The strength effect reading the password of the render before the edit
SetPassword_StaleStrength(text) ==
    /\ FormShown
    /\ ~pendingVerification
    /\ password' = text
    /\ errors' = IF errors.password # "" THEN [errors EXCEPT !.password = ""] ELSE errors
    /\ passwordStrength' = PasswordStrength(password)
    /\ UNCHANGED <<signals, email, code, agreedToTerms, pendingVerification, loading,
                   googleAuth, appleAuth, ops, alerts, consoleErrors, nav, backend>>

\* onChangeText of the password field, and the strength effect its change triggers
SetPassword(text) ==
    /\ FormShown
    /\ ~pendingVerification
    /\ password' = text
    /\ errors' = IF errors.password # "" THEN [errors EXCEPT !.password = ""] ELSE errors
    /\ passwordStrength' = PasswordStrength(text)
    /\ UNCHANGED <<signals, email, code, agreedToTerms, pendingVerification, loading,
                   googleAuth, appleAuth, ops, alerts, consoleErrors, nav, backend>>

ToggleTerms ==
    /\ FormShown
    /\ ~pendingVerification
    /\ agreedToTerms' = ~agreedToTerms
    /\ UNCHANGED <<signals, email, password, code, errors, passwordStrength,
                   pendingVerification, loading, googleAuth, appleAuth, ops, alerts,
                   consoleErrors, nav, backend>>

SetCode(text) ==
    /\ FormShown
    /\ pendingVerification
    /\ code' = text
    /\ UNCHANGED <<signals, email, password, agreedToTerms, errors, passwordStrength,
                   pendingVerification, loading, googleAuth, appleAuth, ops, alerts,
                   consoleErrors, nav, backend>>

-----------------------------------------------------------------------------
\* The buttons' disabled props

SignUpButtonEnabled == ~(loading \/ ~signUpLoaded)

\* The Verify Email button without its disabled prop
VerifyButtonEnabled_AlwaysOn == TRUE

VerifyButtonEnabled == ~loading

ResendButtonEnabled == ~loading

\* The social buttons without their disabled prop
SocialButtonEnabled_AlwaysOn == TRUE

SocialButtonEnabled == ~loading

-----------------------------------------------------------------------------
\* handleEmailSignUp

\* handleEmailSignUp showing the verification view as soon as it is pressed
handleEmailSignUp_OptimisticPending ==
    /\ FormShown
    /\ ~pendingVerification
    /\ SignUpButtonEnabled
    /\ Len(ops) < MaxOps
    /\ LET v == validateForm(email, password, agreedToTerms) IN
        /\ errors' = v.errors
        /\ alerts' = v.alerts
        /\ IF ~v.valid \/ ~signUpLoaded
           THEN UNCHANGED <<loading, ops, pendingVerification>>
           ELSE /\ loading' = TRUE
                /\ pendingVerification' = TRUE
                /\ ops' = Append(ops, [NewOp("signup", "create") EXCEPT
                                          !.emailAddress = email, !.password = password])
    /\ consoleErrors' = <<>>
    /\ UNCHANGED <<signals, email, password, code, agreedToTerms, passwordStrength,
                   googleAuth, appleAuth, nav, backend>>

\* The press: validateForm, the guard, setLoading(true), signUp.create(...)
handleEmailSignUp ==
    /\ FormShown
    /\ ~pendingVerification
    /\ SignUpButtonEnabled
    /\ Len(ops) < MaxOps
    /\ LET v == validateForm(email, password, agreedToTerms) IN
        /\ errors' = v.errors
        /\ alerts' = v.alerts
        /\ IF ~v.valid \/ ~signUpLoaded
           THEN UNCHANGED <<loading, ops>>
           ELSE /\ loading' = TRUE
                /\ ops' = Append(ops, [NewOp("signup", "create") EXCEPT
                                          !.emailAddress = email, !.password = password])
    /\ consoleErrors' = <<>>
    /\ UNCHANGED <<signals, email, password, code, agreedToTerms, passwordStrength,
                   pendingVerification, googleAuth, appleAuth, nav, backend>>

\* catch and finally of handleEmailSignUp
SignUpFailed(i) ==
    /\ alerts' = Append(alerts, SignUpErrorAlert(ops[i].resp.errors))
    /\ consoleErrors' = Append(consoleErrors,
            [label |-> "Sign up error:", error |-> ErrorMessage(ops[i].resp.errors, "")])
    /\ loading' = FALSE
    /\ ops' = RemoveAt(ops, i)
    /\ UNCHANGED pendingVerification

\* handleEmailSignUp with setPendingVerification(true) moved up, before the dispatch
SignUpAfterCreate_EarlyPending(i) ==
    /\ Answered(i, "signup", "create")
    /\ IF ops[i].resp.state = "ok"
       THEN /\ ops' = [ops EXCEPT ![i].pc = "prepare", ![i].resp = NoResp]
            /\ pendingVerification' = TRUE
            /\ UNCHANGED <<alerts, consoleErrors, loading>>
       ELSE SignUpFailed(i)
    /\ UNCHANGED <<signals, email, password, code, agreedToTerms, errors,
                   passwordStrength, googleAuth, appleAuth, nav, backend>>

\* After await signUp.create: on to prepareEmailAddressVerification, or catch
SignUpAfterCreate(i) ==
    /\ Answered(i, "signup", "create")
    /\ IF ops[i].resp.state = "ok"
       THEN /\ ops' = [ops EXCEPT ![i].pc = "prepare", ![i].resp = NoResp]
            /\ UNCHANGED <<alerts, consoleErrors, loading, pendingVerification>>
       ELSE SignUpFailed(i)
    /\ UNCHANGED <<signals, email, password, code, agreedToTerms, errors,
                   passwordStrength, googleAuth, appleAuth, nav, backend>>

\* handleEmailSignUp with setPendingVerification(true) moved down into finally
SignUpAfterPrepare_PendingInFinally(i) ==
    /\ Answered(i, "signup", "prepare")
    /\ IF ops[i].resp.state = "ok"
       THEN UNCHANGED <<alerts, consoleErrors>>
       ELSE /\ alerts' = Append(alerts, SignUpErrorAlert(ops[i].resp.errors))
            /\ consoleErrors' = Append(consoleErrors,
                    [label |-> "Sign up error:",
                     error |-> ErrorMessage(ops[i].resp.errors, "")])
    /\ pendingVerification' = TRUE
    /\ loading' = FALSE
    /\ ops' = RemoveAt(ops, i)
    /\ UNCHANGED <<signals, email, password, code, agreedToTerms, errors,
                   passwordStrength, googleAuth, appleAuth, nav, backend>>

\* After await signUp.prepareEmailAddressVerification: setPendingVerification(true),
\* or catch; then finally
SignUpAfterPrepare(i) ==
    /\ Answered(i, "signup", "prepare")
    /\ IF ops[i].resp.state = "ok"
       THEN /\ pendingVerification' = TRUE
            /\ loading' = FALSE
            /\ ops' = RemoveAt(ops, i)
            /\ UNCHANGED <<alerts, consoleErrors>>
       ELSE SignUpFailed(i)
    /\ UNCHANGED <<signals, email, password, code, agreedToTerms, errors,
                   passwordStrength, googleAuth, appleAuth, nav, backend>>

-----------------------------------------------------------------------------
\* verifyEmail

\* The press: the guard on the code, setLoading(true), attemptEmailAddressVerification
verifyEmail ==
    /\ FormShown
    /\ pendingVerification
    /\ VerifyButtonEnabled
    /\ Len(ops) < MaxOps
    /\ IF Trim(code) = <<>> \/ ~signUpLoaded
       THEN /\ alerts' = <<CodeRequiredAlert>>
            /\ UNCHANGED <<loading, ops>>
       ELSE /\ alerts' = <<>>
            /\ loading' = TRUE
            /\ ops' = Append(ops, [NewOp("verify", "attempt") EXCEPT !.code = code])
    /\ consoleErrors' = <<>>
    /\ UNCHANGED <<signals, email, password, code, agreedToTerms, errors,
                   passwordStrength, pendingVerification, googleAuth, appleAuth, nav,
                   backend>>

\* catch and finally of verifyEmail
VerifyFailed(i) ==
    /\ alerts' = Append(alerts, VerifyErrorAlert(ops[i].resp.errors))
    /\ consoleErrors' = Append(consoleErrors,
            [label |-> "Verification error:", error |-> ErrorMessage(ops[i].resp.errors, "")])
    /\ loading' = FALSE
    /\ ops' = RemoveAt(ops, i)
    /\ UNCHANGED nav

\* verifyEmail without the test of completeSignUp.status
VerifyAfterAttempt_AnyStatus(i) ==
    /\ Answered(i, "verify", "attempt")
    /\ IF ops[i].resp.state = "ok"
       THEN /\ ops' = [ops EXCEPT ![i].pc = "setActive",
                                  ![i].session = ops[i].resp.createdSessionId,
                                  ![i].resp = NoResp]
            /\ UNCHANGED <<alerts, consoleErrors, loading, nav>>
       ELSE VerifyFailed(i)
    /\ UNCHANGED <<signals, email, password, code, agreedToTerms, errors,
                   passwordStrength, pendingVerification, googleAuth, appleAuth, backend>>

\* verifyEmail with setLoading(false) on its success and error paths only
VerifyAfterAttempt_LoadingStuck(i) ==
    /\ Answered(i, "verify", "attempt")
    /\ IF ops[i].resp.state = "ok"
       THEN IF ops[i].resp.status = "complete" /\ signUpLoaded
            THEN /\ ops' = [ops EXCEPT ![i].pc = "setActive",
                                       ![i].session = ops[i].resp.createdSessionId,
                                       ![i].resp = NoResp]
                 /\ UNCHANGED <<alerts, consoleErrors, loading, nav>>
            ELSE /\ ops' = RemoveAt(ops, i)
                 /\ UNCHANGED <<alerts, consoleErrors, loading, nav>>
       ELSE VerifyFailed(i)
    /\ UNCHANGED <<signals, email, password, code, agreedToTerms, errors,
                   passwordStrength, pendingVerification, googleAuth, appleAuth, backend>>

\* verifyEmail sending the user back to the credential form when the code is refused
VerifyAfterAttempt_FailureBackToForm(i) ==
    /\ Answered(i, "verify", "attempt")
    /\ IF ops[i].resp.state = "ok"
       THEN /\ IF ops[i].resp.status = "complete" /\ signUpLoaded
               THEN /\ ops' = [ops EXCEPT ![i].pc = "setActive",
                                          ![i].session = ops[i].resp.createdSessionId,
                                          ![i].resp = NoResp]
                    /\ UNCHANGED <<alerts, consoleErrors, loading, nav>>
               ELSE /\ loading' = FALSE
                    /\ ops' = RemoveAt(ops, i)
                    /\ UNCHANGED <<alerts, consoleErrors, nav>>
            /\ UNCHANGED pendingVerification
       ELSE /\ VerifyFailed(i)
            /\ pendingVerification' = FALSE
    /\ UNCHANGED <<signals, email, password, code, agreedToTerms, errors,
                   passwordStrength, googleAuth, appleAuth, backend>>

\* After await attemptEmailAddressVerification: setActive on "complete" (setActive is
\* defined with signUp), nothing on another status, or catch
VerifyAfterAttempt(i) ==
    /\ Answered(i, "verify", "attempt")
    /\ IF ops[i].resp.state = "ok"
       THEN IF ops[i].resp.status = "complete" /\ signUpLoaded
            THEN /\ ops' = [ops EXCEPT ![i].pc = "setActive",
                                       ![i].session = ops[i].resp.createdSessionId,
                                       ![i].resp = NoResp]
                 /\ UNCHANGED <<alerts, consoleErrors, loading, nav>>
            ELSE /\ loading' = FALSE
                 /\ ops' = RemoveAt(ops, i)
                 /\ UNCHANGED <<alerts, consoleErrors, nav>>
       ELSE VerifyFailed(i)
    /\ UNCHANGED <<signals, email, password, code, agreedToTerms, errors,
                   passwordStrength, pendingVerification, googleAuth, appleAuth, backend>>

\* verifyEmail without its router.replace('/home')
VerifyAfterSetActive_NoRedirect(i) ==
    /\ Answered(i, "verify", "setActive")
    /\ IF ops[i].resp.state = "ok"
       THEN /\ alerts' = Append(alerts, AccountCreatedAlert)
            /\ loading' = FALSE
            /\ ops' = RemoveAt(ops, i)
            /\ UNCHANGED <<consoleErrors, nav>>
       ELSE VerifyFailed(i)
    /\ UNCHANGED <<signals, email, password, code, agreedToTerms, errors,
                   passwordStrength, pendingVerification, googleAuth, appleAuth, backend>>

\* After await setActive: the success alert and router.replace('/home'), or catch;
\* then finally
VerifyAfterSetActive(i) ==
    /\ Answered(i, "verify", "setActive")
    /\ IF ops[i].resp.state = "ok"
       THEN /\ alerts' = Append(alerts, AccountCreatedAlert)
            /\ nav' = nav \cup {"verifyEmail"}
            /\ loading' = FALSE
            /\ ops' = RemoveAt(ops, i)
            /\ UNCHANGED consoleErrors
       ELSE VerifyFailed(i)
    /\ UNCHANGED <<signals, email, password, code, agreedToTerms, errors,
                   passwordStrength, pendingVerification, googleAuth, appleAuth, backend>>

-----------------------------------------------------------------------------
\* resendVerificationCode

\* The press: the guard, setLoading(true), prepareEmailAddressVerification
resendVerificationCode ==
    /\ FormShown
    /\ pendingVerification
    /\ ResendButtonEnabled
    /\ Len(ops) < MaxOps
    /\ alerts' = <<>>
    /\ consoleErrors' = <<>>
    /\ IF ~signUpLoaded
       THEN UNCHANGED <<loading, ops>>
       ELSE /\ loading' = TRUE
            /\ ops' = Append(ops, NewOp("resend", "prepare"))
    /\ UNCHANGED <<signals, email, password, code, agreedToTerms, errors,
                   passwordStrength, pendingVerification, googleAuth, appleAuth, nav,
                   backend>>

\* resendVerificationCode going back to the credential form when the resend fails
ResendAfterPrepare_FailureBackToForm(i) ==
    /\ Answered(i, "resend", "prepare")
    /\ IF ops[i].resp.state = "ok"
       THEN /\ alerts' = Append(alerts, CodeResentAlert)
            /\ UNCHANGED <<consoleErrors, pendingVerification>>
       ELSE /\ alerts' = Append(alerts, ResendFailedAlert)
            /\ consoleErrors' = Append(consoleErrors,
                    [label |-> "Resend code error:",
                     error |-> ErrorMessage(ops[i].resp.errors, "")])
            /\ pendingVerification' = FALSE
    /\ loading' = FALSE
    /\ ops' = RemoveAt(ops, i)
    /\ UNCHANGED <<signals, email, password, code, agreedToTerms, errors,
                   passwordStrength, googleAuth, appleAuth, nav, backend>>

\* After await prepareEmailAddressVerification: the success alert, or catch; then finally
ResendAfterPrepare(i) ==
    /\ Answered(i, "resend", "prepare")
    /\ IF ops[i].resp.state = "ok"
       THEN /\ alerts' = Append(alerts, CodeResentAlert)
            /\ UNCHANGED consoleErrors
       ELSE /\ alerts' = Append(alerts, ResendFailedAlert)
            /\ consoleErrors' = Append(consoleErrors,
                    [label |-> "Resend code error:",
                     error |-> ErrorMessage(ops[i].resp.errors, "")])
    /\ loading' = FALSE
    /\ ops' = RemoveAt(ops, i)
    /\ UNCHANGED <<signals, email, password, code, agreedToTerms, errors,
                   passwordStrength, pendingVerification, googleAuth, appleAuth, nav,
                   backend>>

-----------------------------------------------------------------------------
\* handleSocialAuth

\* handleSocialAuth with setLoading(false) at the end of try instead of in finally
SocialFailed_NoFinally(error) ==
    /\ alerts' = Append(alerts, SocialFailedAlert)
    /\ consoleErrors' = Append(consoleErrors, [label |-> "Social auth error:", error |-> error])
    /\ UNCHANGED loading

\* catch and finally of handleSocialAuth, for the error thrown or rejected with
SocialFailed(error) ==
    /\ alerts' = Append(alerts, SocialFailedAlert)
    /\ consoleErrors' = Append(consoleErrors, [label |-> "Social auth error:", error |-> error])
    /\ loading' = FALSE

\* The press: setLoading(true), the provider's flow is picked and started; a missing
\* flow throws inside the try, so catch and finally run in the same turn
handleSocialAuth(strategy) ==
    /\ FormShown
    /\ SocialButtonEnabled
    /\ Len(ops) < MaxOps
    /\ LET authFlow == IF strategy = "google" THEN googleAuth ELSE appleAuth IN
        IF ~authFlow
        THEN /\ alerts' = <<SocialFailedAlert>>
             /\ consoleErrors' = <<[label |-> "Social auth error:",
                                    error |-> ProviderUnavailableError(strategy)]>>
             /\ loading' = FALSE
             /\ UNCHANGED ops
        ELSE /\ alerts' = <<>>
             /\ consoleErrors' = <<>>
             /\ loading' = TRUE
             /\ ops' = Append(ops, [NewOp("social", "flow") EXCEPT !.strategy = strategy])
    /\ UNCHANGED <<signals, email, password, code, agreedToTerms, errors,
                   passwordStrength, pendingVerification, googleAuth, appleAuth, nav,
                   backend>>

\* handleSocialAuth throwing when the flow brought no session
SocialAfterFlow_CancelIsError(i) ==
    /\ Answered(i, "social", "flow")
    /\ IF ops[i].resp.state = "ok"
       THEN IF ops[i].resp.createdSessionId # "" /\ ops[i].resp.setActive
            THEN /\ ops' = [ops EXCEPT ![i].pc = "setActive",
                                       ![i].session = ops[i].resp.createdSessionId,
                                       ![i].resp = NoResp]
                 /\ UNCHANGED <<alerts, consoleErrors, loading>>
            ELSE /\ SocialFailed("No session was created")
                 /\ ops' = RemoveAt(ops, i)
       ELSE /\ SocialFailed(ErrorMessage(ops[i].resp.errors, ""))
            /\ ops' = RemoveAt(ops, i)
    /\ UNCHANGED <<signals, email, password, code, agreedToTerms, errors,
                   passwordStrength, pendingVerification, googleAuth, appleAuth, nav,
                   backend>>

\* After await authFlow(): setOAuthActive when a session and setActive came back,
\* nothing otherwise, or catch
SocialAfterFlow(i) ==
    /\ Answered(i, "social", "flow")
    /\ IF ops[i].resp.state = "ok"
       THEN IF ops[i].resp.createdSessionId # "" /\ ops[i].resp.setActive
            THEN /\ ops' = [ops EXCEPT ![i].pc = "setActive",
                                       ![i].session = ops[i].resp.createdSessionId,
                                       ![i].resp = NoResp]
                 /\ UNCHANGED <<alerts, consoleErrors, loading>>
            ELSE /\ loading' = FALSE
                 /\ ops' = RemoveAt(ops, i)
                 /\ UNCHANGED <<alerts, consoleErrors>>
       ELSE /\ SocialFailed(ErrorMessage(ops[i].resp.errors, ""))
            /\ ops' = RemoveAt(ops, i)
    /\ UNCHANGED <<signals, email, password, code, agreedToTerms, errors,
                   passwordStrength, pendingVerification, googleAuth, appleAuth, nav,
                   backend>>

\* handleSocialAuth with its router.replace('/home') after the try block
SocialAfterSetActive_RedirectAnyway(i) ==
    /\ Answered(i, "social", "setActive")
    /\ IF ops[i].resp.state = "ok"
       THEN /\ loading' = FALSE
            /\ UNCHANGED <<alerts, consoleErrors>>
       ELSE SocialFailed(ErrorMessage(ops[i].resp.errors, ""))
    /\ nav' = nav \cup {"handleSocialAuth"}
    /\ ops' = RemoveAt(ops, i)
    /\ UNCHANGED <<signals, email, password, code, agreedToTerms, errors,
                   passwordStrength, pendingVerification, googleAuth, appleAuth, backend>>

\* After await setOAuthActive: router.replace('/home'), or catch; then finally
SocialAfterSetActive(i) ==
    /\ Answered(i, "social", "setActive")
    /\ IF ops[i].resp.state = "ok"
       THEN /\ nav' = nav \cup {"handleSocialAuth"}
            /\ loading' = FALSE
            /\ UNCHANGED <<alerts, consoleErrors>>
       ELSE /\ SocialFailed(ErrorMessage(ops[i].resp.errors, ""))
            /\ UNCHANGED nav
    /\ ops' = RemoveAt(ops, i)
    /\ UNCHANGED <<signals, email, password, code, agreedToTerms, errors,
                   passwordStrength, pendingVerification, googleAuth, appleAuth, backend>>

-----------------------------------------------------------------------------
\* The identity service answers an outstanding call

\* What the call does to the service when it succeeds
Served(op, answer) ==
    IF answer.state # "ok" THEN backend
    ELSE IF op.pc = "create" THEN [backend EXCEPT !.account = TRUE]
    ELSE IF op.pc = "prepare" THEN [backend EXCEPT !.codeSent = TRUE]
    ELSE IF op.pc \in {"attempt", "flow"} /\ answer.createdSessionId # ""
         THEN [backend EXCEPT !.created = @ \cup {answer.createdSessionId}]
    ELSE IF op.pc = "setActive" THEN [backend EXCEPT !.active = op.session]
    ELSE backend

\* The effect of CustomSignUp on isSignedIn: router.replace('/home') when it is true.
\* It runs only if the screen is rendered once more before the navigator drops it.
SignedInEffect(rendered) ==
    IF rendered THEN nav \cup {"useEffect"} ELSE nav

RemoteAnswer(i) ==
    /\ i \in Outstanding
    /\ \E answer \in Answers(ops[i].pc) :
        /\ ops' = [ops EXCEPT ![i].resp = answer]
        /\ backend' = Served(ops[i], answer)
        /\ IF ops[i].pc = "setActive" /\ answer.state = "ok"
           THEN /\ isSignedIn' = TRUE
                /\ mounted' = AppNavigator(authLoaded, TRUE)
                /\ \E rendered \in BOOLEAN : nav' = SignedInEffect(rendered)
           ELSE UNCHANGED <<isSignedIn, mounted, nav>>
    /\ UNCHANGED <<authLoaded, signUpLoaded, screenState, googleAuth, appleAuth, alerts,
                   consoleErrors>>

-----------------------------------------------------------------------------
\* The code a handler runs when the call it awaits is answered
Continue(i) ==
    \/ SignUpAfterCreate(i)
    \/ SignUpAfterPrepare(i)
    \/ VerifyAfterAttempt(i)
    \/ VerifyAfterSetActive(i)
    \/ ResendAfterPrepare(i)
    \/ SocialAfterFlow(i)
    \/ SocialAfterSetActive(i)

Next ==
    \/ AuthLoad
    \/ SignUpLoad
    \/ \E text \in Emails : SetEmail(text)
    \/ \E text \in Passwords : SetPassword(text)
    \/ ToggleTerms
    \/ \E text \in Codes : SetCode(text)
    \/ handleEmailSignUp
    \/ verifyEmail
    \/ resendVerificationCode
    \/ \E strategy \in SocialAuthStrategy : handleSocialAuth(strategy)
    \/ \E i \in 1..Len(ops) : RemoteAnswer(i)
    \/ \E i \in 1..Len(ops) : SignUpAfterCreate(i)
    \/ \E i \in 1..Len(ops) : SignUpAfterPrepare(i)
    \/ \E i \in 1..Len(ops) : VerifyAfterAttempt(i)
    \/ \E i \in 1..Len(ops) : VerifyAfterSetActive(i)
    \/ \E i \in 1..Len(ops) : ResendAfterPrepare(i)
    \/ \E i \in 1..Len(ops) : SocialAfterFlow(i)
    \/ \E i \in 1..Len(ops) : SocialAfterSetActive(i)

Spec == Init /\ [][Next]_vars

\* A resolved or rejected promise always gets its continuation run, and every remote
\* call is eventually answered
FairSpec ==
    /\ Spec
    /\ WF_vars(\E i \in 1..Len(ops) : Continue(i))
    /\ WF_vars(\E i \in 1..Len(ops) : RemoteAnswer(i))

-----------------------------------------------------------------------------
\* validateForm over typed texts: the form is up, the hooks are loaded, the fields
\* hold any email and password of the bounded sets, and Sign Up is pressed

MaxEmailLen == 5

MaxPasswordLen == 8

EmailAlphabet == {"a", "@", ".", " "}

\* Every email of at most MaxEmailLen characters, and the emails of the runs
EmailTexts == UNION {[1..n -> EmailAlphabet] : n \in 0..MaxEmailLen} \cup Emails

\* Leading blanks followed by letters, at most MaxPasswordLen characters, and the
\* passwords of the runs
PasswordTexts ==
    UNION {{[i \in 1..len |-> IF i <= n THEN " " ELSE "a"] : n \in 0..len} :
              len \in 0..MaxPasswordLen} \cup Passwords

ValidateInit ==
    /\ authLoaded = TRUE
    /\ isSignedIn = FALSE
    /\ signUpLoaded = TRUE
    /\ mounted = AppNavigator(TRUE, FALSE)
    /\ email \in EmailTexts
    /\ password \in PasswordTexts
    /\ code = <<>>
    /\ agreedToTerms \in BOOLEAN
    /\ errors = NoErrors
    /\ passwordStrength = PasswordStrength(password)
    /\ pendingVerification = FALSE
    /\ loading = FALSE
    /\ googleAuth = TRUE
    /\ appleAuth = TRUE
    /\ ops = <<>>
    /\ alerts = <<>>
    /\ consoleErrors = <<>>
    /\ nav = {}
    /\ backend = [account |-> FALSE, codeSent |-> FALSE, created |-> {}, active |-> ""]

ValidateNext == handleEmailSignUp

ValidateSpec == ValidateInit /\ [][ValidateNext]_vars

-----------------------------------------------------------------------------
\* The password strength effect over typed passwords: the form is up and the
\* password is edited one character at a time

MaxTyped == 8

PasswordAlphabet == {"a", "A", "1", "!"}

StrengthInit ==
    /\ authLoaded = TRUE
    /\ isSignedIn = FALSE
    /\ signUpLoaded = TRUE
    /\ mounted = AppNavigator(TRUE, FALSE)
    /\ email = <<>>
    /\ password = <<>>
    /\ code = <<>>
    /\ agreedToTerms = FALSE
    /\ errors = NoErrors
    /\ passwordStrength = 0
    /\ pendingVerification = FALSE
    /\ loading = FALSE
    /\ googleAuth = TRUE
    /\ appleAuth = TRUE
    /\ ops = <<>>
    /\ alerts = <<>>
    /\ consoleErrors = <<>>
    /\ nav = {}
    /\ backend = [account |-> FALSE, codeSent |-> FALSE, created |-> {}, active |-> ""]

\* A character typed at the end of the password
TypePassword ==
    /\ Len(password) < MaxTyped
    /\ \E c \in PasswordAlphabet : SetPassword(Append(password, c))

\* The last character of the password deleted
ErasePassword ==
    /\ password # <<>>
    /\ SetPassword(SubSeq(password, 1, Len(password) - 1))

StrengthNext == TypePassword \/ ErasePassword

StrengthSpec == StrengthInit /\ [][StrengthNext]_vars

-----------------------------------------------------------------------------
\* Vocabulary of the properties

\* This step runs the continuation of invocation i on the answer it holds
Taken(i) ==
    /\ i \in 1..Len(ops)
    /\ ops[i].resp.state # "none"
    /\ \/ ops' = RemoveAt(ops, i)
       \/ /\ Len(ops') = Len(ops)
          /\ ops'[i].pc # ops[i].pc

\* This step ends invocation i
Ended(i) == Taken(i) /\ ops' = RemoveAt(ops, i)

\* This step starts an invocation of the given kind
Started(kind) ==
    /\ Len(ops') = Len(ops) + 1
    /\ ops'[Len(ops')].kind = kind

\* The identity service has created the account and dispatched a code
CodeDispatched == backend.account /\ backend.codeSent

-----------------------------------------------------------------------------
\* C1: while loading is set by one of handleEmailSignUp, verifyEmail,
\* resendVerificationCode and handleSocialAuth, no second invocation of any of them
\* starts and no further handler issues a remote call: in every reachable state at
\* most one handler is in flight, the busy flag is set while it is, and at most one
\* remote call is outstanding.
C1_OneOutstandingCall ==
    /\ [](/\ Cardinality(Outstanding) <= 1
          /\ Len(ops) <= 1
          /\ (ops # <<>> => loading))
    /\ [][loading => Len(ops') <= Len(ops)]_vars

\* A social delegation is in flight from the verification view: verify, resend and
\* both social buttons are on screen and disabled
C1_Witness ==
    /\ Len(ops) = 1
    /\ ops[1].kind = "social"
    /\ ops[1].pc = "flow"
    /\ ops[1].resp.state = "none"
    /\ pendingVerification
    /\ loading
    /\ FormShown

\* C2: handleEmailSignUp with a failing validation (a field error, or no consent)
\* starts nothing: no remote call, loading stays false, pendingVerification stays
\* false, the service is untouched; and signUp.create is only ever called from a state
\* where consent is given and both fields are free of errors.
C2_InvalidSubmitIsNoOp ==
    [][ /\ (/\ handleEmailSignUp
            /\ ~(agreedToTerms /\ EmailError(email) = "" /\ PasswordError(password) = ""))
           => /\ ops' = ops
              /\ ~loading'
              /\ ~pendingVerification'
              /\ backend' = backend
        /\ Started("signup")
           => /\ agreedToTerms
              /\ EmailError(email) = ""
              /\ PasswordError(password) = ""
              /\ ops'[Len(ops')].pc = "create"
      ]_vars

\* An invalid submission has been made: both field errors and the consent advisory
\* are up, and nothing is in flight
C2_Witness ==
    /\ errors.email = "Invalid email format"
    /\ errors.password = "Password must be at least 8 characters"
    /\ alerts = <<TermsAlert>>
    /\ ops = <<>>
    /\ ~loading
    /\ ~pendingVerification
    /\ ~backend.account

\* C3: when signUp.create succeeded and prepareEmailAddressVerification is rejected,
\* handleEmailSignUp ends with pendingVerification false, a sign-up error advisory
\* and loading cleared; pendingVerification is never true while handleEmailSignUp is
\* in flight.
C3_DispatchFailureBackToIdle ==
    /\ [](\A i \in 1..Len(ops) : ops[i].kind = "signup" => ~pendingVerification)
    /\ [][\A i \in 1..Len(ops) :
            (/\ ops[i].kind = "signup"
             /\ ops[i].pc = "prepare"
             /\ ops[i].resp.state = "rejected"
             /\ Taken(i))
            => /\ Ended(i)
               /\ ~pendingVerification'
               /\ ~loading'
               /\ Len(alerts') = Len(alerts) + 1
               /\ alerts'[Len(alerts')].title = "Sign Up Error"
       ]_vars

\* The account exists, no code was ever dispatched, and the form is back with the
\* sign-up error advisory
C3_Witness ==
    /\ backend.account
    /\ ~backend.codeSent
    /\ ~pendingVerification
    /\ ~loading
    /\ ops = <<>>
    /\ Len(alerts) = 1
    /\ alerts[1].title = "Sign Up Error"

\* C4: a successful handleEmailSignUp (create and prepare both answered ok) ends in
\* the verification view with nothing in flight and resend permitted; verifyEmail
\* and resendVerificationCode can be invoked, or be in flight, only after the
\* service has created the account and dispatched a code.
C4_VerifyOnlyAfterDispatch ==
    /\ [](/\ pendingVerification => CodeDispatched
          /\ (ENABLED verifyEmail) => CodeDispatched
          /\ (ENABLED resendVerificationCode) => CodeDispatched
          /\ \A i \in 1..Len(ops) :
                ops[i].kind \in {"verify", "resend"} => CodeDispatched)
    /\ [][\A i \in 1..Len(ops) :
            (/\ ops[i].kind = "signup"
             /\ ops[i].pc = "prepare"
             /\ ops[i].resp.state = "ok"
             /\ Taken(i))
            => /\ pendingVerification'
               /\ ops' = <<>>
               /\ (FormShown /\ ResendButtonEnabled)'
       ]_vars

\* Right after a successful submission: the verification view, idle, resend enabled
C4_Witness ==
    /\ pendingVerification
    /\ code = <<>>
    /\ ops = <<>>
    /\ alerts = <<>>
    /\ ENABLED resendVerificationCode

-----------------------------------------------------------------------------
\* C5 as stated: once attemptEmailAddressVerification has returned "complete" with a
\* session, verifyEmail activates exactly that session and ends in Complete (session
\* active, navigation signalled); on any other status nothing is activated, nothing
\* is navigated, no error is raised and the verification view stays as it was.
C5_CompleteAlwaysActivates ==
    [][\A i \in 1..Len(ops) :
        /\ (/\ ops[i].kind = "verify"
            /\ ops[i].pc = "attempt"
            /\ ops[i].resp.state = "ok"
            /\ ops[i].resp.status = "complete"
            /\ Taken(i))
           => /\ Len(ops') = Len(ops)
              /\ ops'[i].pc = "setActive"
              /\ ops'[i].session = ops[i].resp.createdSessionId
        /\ (/\ ops[i].kind = "verify"
            /\ ops[i].pc = "setActive"
            /\ Taken(i))
           => /\ backend.active = ops[i].session
              /\ isSignedIn
              /\ "verifyEmail" \in nav'
        /\ (/\ ops[i].kind = "verify"
            /\ ops[i].pc = "attempt"
            /\ ops[i].resp.state = "ok"
            /\ ops[i].resp.status # "complete"
            /\ Taken(i))
           => /\ Ended(i)
              /\ pendingVerification'
              /\ UNCHANGED <<alerts, consoleErrors, nav, backend, isSignedIn, code, email>>
      ]_vars

\* C5 amended: on "complete" verifyEmail passes exactly the returned session to
\* setActive; if setActive resolves, that session is the active one, the success
\* advisory is shown and navigation is signalled; if setActive rejects, an error
\* advisory is shown, nothing is navigated and the verification view stays; on any
\* other status nothing is activated, nothing is navigated, no error is raised and
\* the verification view stays as it was, with loading cleared.
C5_CompleteActivatesThatSession ==
    [][\A i \in 1..Len(ops) :
        /\ (/\ ops[i].kind = "verify"
            /\ ops[i].pc = "attempt"
            /\ ops[i].resp.state = "ok"
            /\ ops[i].resp.status = "complete"
            /\ Taken(i))
           => /\ Len(ops') = Len(ops)
              /\ ops'[i].pc = "setActive"
              /\ ops'[i].session = ops[i].resp.createdSessionId
              /\ ops'[i].resp.state = "none"
              /\ UNCHANGED <<alerts, nav, backend, isSignedIn, pendingVerification>>
        /\ (/\ ops[i].kind = "verify"
            /\ ops[i].pc = "setActive"
            /\ ops[i].resp.state = "ok"
            /\ Taken(i))
           => /\ Ended(i)
              /\ backend.active = ops[i].session
              /\ isSignedIn
              /\ nav' = nav \cup {"verifyEmail"}
              /\ alerts' = Append(alerts, AccountCreatedAlert)
              /\ ~loading'
        /\ (/\ ops[i].kind = "verify"
            /\ ops[i].pc = "setActive"
            /\ ops[i].resp.state = "rejected"
            /\ Taken(i))
           => /\ Ended(i)
              /\ pendingVerification'
              /\ ~loading'
              /\ alerts' = Append(alerts, VerifyErrorAlert(ops[i].resp.errors))
              /\ UNCHANGED <<nav, backend, isSignedIn>>
        /\ (/\ ops[i].kind = "verify"
            /\ ops[i].pc = "attempt"
            /\ ops[i].resp.state = "ok"
            /\ ops[i].resp.status # "complete"
            /\ Taken(i))
           => /\ Ended(i)
              /\ pendingVerification'
              /\ ~loading'
              /\ UNCHANGED <<alerts, consoleErrors, nav, backend, isSignedIn, code, email>>
      ]_vars

\* Complete: the verification path has activated a session and signalled navigation
C5_Witness ==
    /\ "verifyEmail" \in nav
    /\ backend.active \in backend.created
    /\ isSignedIn
    /\ alerts = <<AccountCreatedAlert>>
    /\ ops = <<>>

\* C6: in each of the four operations a rejected remote call (setActive included)
\* ends the invocation with one more advisory on screen, loading cleared, nothing in
\* flight, no navigation and no session; pendingVerification is what it was when the
\* operation started, since only a successful dispatch changes it while an
\* operation is in flight.
C6_FailuresRollBack ==
    [][ /\ \A i \in 1..Len(ops) :
            (ops[i].resp.state = "rejected" /\ Taken(i))
            => /\ Ended(i)
               /\ ops' = <<>>
               /\ ~loading'
               /\ pendingVerification' = pendingVerification
               /\ Len(alerts') = Len(alerts) + 1
               /\ alerts'[Len(alerts')].title \in
                      {"Sign Up Error", "Verification Error", "Error", "Authentication Error"}
               /\ Len(consoleErrors') = Len(consoleErrors) + 1
               /\ UNCHANGED <<nav, isSignedIn, backend, mounted>>
        /\ (ops # <<>> /\ pendingVerification' # pendingVerification)
            => /\ ops[1].kind = "signup"
               /\ ops[1].pc = "prepare"
               /\ ops[1].resp.state = "ok"
      ]_vars

\* A session was created by the service but its activation, or a later call of
\* verifyEmail, was rejected: the verification view is back with the error advisory
C6_Witness ==
    /\ pendingVerification
    /\ ~loading
    /\ ops = <<>>
    /\ alerts = <<VerifyErrorAlert(<<>>)>>
    /\ backend.created # {}
    /\ backend.active = ""
    /\ ~isSignedIn

\* C7: the rendered subtree is decided by (isLoaded, isSignedIn) alone: nothing is
\* mounted while not loaded, only SignUp when loaded and signed out, only the main
\* screens when loaded and signed in; the two subtrees are never mounted together.
C7_RouterFollowsSignal ==
    /\ ~authLoaded => mounted = {}
    /\ (authLoaded /\ ~isSignedIn) => mounted = {"SignUp"}
    /\ (authLoaded /\ isSignedIn) => ("SignUp" \notin mounted /\ mounted = MainScreens)
    /\ ~("SignUp" \in mounted /\ mounted \cap MainScreens # {})

\* The signal changed under a displayed onboarding screen and the tree was swapped
C7_Witness ==
    /\ authLoaded
    /\ isSignedIn
    /\ mounted = MainScreens
    /\ pendingVerification
    /\ ops # <<>>

\* C8: whenever a session becomes active under the onboarding screen (setActive of
\* verifyEmail or of handleSocialAuth resolved, in whatever state the form is), the
\* handler that activated it calls router.replace('/home').
C8_RedirectOnSignIn ==
    (isSignedIn /\ ops # <<>>) ~> ("verifyEmail" \in nav \/ "handleSocialAuth" \in nav)

\* The social path signed the user in from the verification view and redirected
C8_Witness ==
    /\ isSignedIn
    /\ pendingVerification
    /\ "handleSocialAuth" \in nav
    /\ "useEffect" \notin nav

\* C9 as stated: a flow that returns a session always gets exactly that session
\* activated and navigation signalled; a flow that returns none is a silent no-op.
C9_SessionAlwaysActivated ==
    [][\A i \in 1..Len(ops) :
        /\ (/\ ops[i].kind = "social"
            /\ ops[i].pc = "flow"
            /\ ops[i].resp.state = "ok"
            /\ ops[i].resp.createdSessionId # ""
            /\ Taken(i))
           => /\ Len(ops') = Len(ops)
              /\ ops'[i].pc = "setActive"
              /\ ops'[i].session = ops[i].resp.createdSessionId
        /\ (/\ ops[i].kind = "social"
            /\ ops[i].pc = "setActive"
            /\ Taken(i))
           => /\ backend.active = ops[i].session
              /\ "handleSocialAuth" \in nav'
        /\ (/\ ops[i].kind = "social"
            /\ ops[i].pc = "flow"
            /\ ops[i].resp.state = "ok"
            /\ ops[i].resp.createdSessionId = ""
            /\ Taken(i))
           => /\ Ended(i)
              /\ ~loading'
              /\ UNCHANGED <<alerts, consoleErrors, nav, backend, isSignedIn,
                             pendingVerification>>
      ]_vars

\* C9 amended: a flow that returns a session and a setActive gets exactly that
\* session passed to setActive at once; when setActive resolves that session is the
\* active one and navigation is signalled, when it rejects the generic advisory is
\* shown and nothing is navigated; a flow that returns no session, or no setActive,
\* is a silent no-op: nothing activated, no advisory, no navigation, the form's state
\* unchanged, loading cleared.
C9_SessionActivatedWhenPossible ==
    [][\A i \in 1..Len(ops) :
        /\ (/\ ops[i].kind = "social"
            /\ ops[i].pc = "flow"
            /\ ops[i].resp.state = "ok"
            /\ ops[i].resp.createdSessionId # ""
            /\ ops[i].resp.setActive
            /\ Taken(i))
           => /\ Len(ops') = Len(ops)
              /\ ops'[i].pc = "setActive"
              /\ ops'[i].session = ops[i].resp.createdSessionId
              /\ ops'[i].resp.state = "none"
              /\ UNCHANGED <<alerts, nav, backend, isSignedIn, pendingVerification>>
        /\ (/\ ops[i].kind = "social"
            /\ ops[i].pc = "setActive"
            /\ ops[i].resp.state = "ok"
            /\ Taken(i))
           => /\ Ended(i)
              /\ backend.active = ops[i].session
              /\ isSignedIn
              /\ nav' = nav \cup {"handleSocialAuth"}
              /\ ~loading'
              /\ UNCHANGED <<alerts, pendingVerification>>
        /\ (/\ ops[i].kind = "social"
            /\ ops[i].pc = "setActive"
            /\ ops[i].resp.state = "rejected"
            /\ Taken(i))
           => /\ Ended(i)
              /\ ~loading'
              /\ alerts' = Append(alerts, SocialFailedAlert)
              /\ UNCHANGED <<nav, backend, isSignedIn, pendingVerification>>
        /\ (/\ ops[i].kind = "social"
            /\ ops[i].pc = "flow"
            /\ ops[i].resp.state = "ok"
            /\ (ops[i].resp.createdSessionId = "" \/ ~ops[i].resp.setActive)
            /\ Taken(i))
           => /\ Ended(i)
              /\ ~loading'
              /\ UNCHANGED <<alerts, consoleErrors, nav, backend, isSignedIn,
                             pendingVerification>>
      ]_vars

\* The social path has activated the session its flow returned, from the
\* credential form, with no advisory
C9_Witness ==
    /\ "handleSocialAuth" \in nav
    /\ backend.active \in backend.created
    /\ isSignedIn
    /\ ~pendingVerification
    /\ alerts = <<>>
    /\ ops = <<>>

\* C10: when the provider picked has no flow, handleSocialAuth fails with an error
\* naming the provider and the advisory shown for it is not the generic
\* "Authentication Error" one.
C10_UnavailableProviderNamed ==
    [][\A strategy \in SocialAuthStrategy :
        (/\ ~(IF strategy = "google" THEN googleAuth ELSE appleAuth)
         /\ handleSocialAuth(strategy))
        => /\ Len(consoleErrors') = 1
           /\ consoleErrors'[1].error = ProviderUnavailableError(strategy)
           /\ Len(alerts') = 1
           /\ alerts'[1] # SocialFailedAlert
      ]_vars

-----------------------------------------------------------------------------
\* C11: resendVerificationCode can be invoked whenever the verification view is shown
\* with loading clear; it issues the same call as the dispatch of handleEmailSignUp
\* (prepareEmailAddressVerification) and sets only loading; when its call is
\* answered, ok or rejected, it ends with pendingVerification still true, code and
\* email untouched and loading cleared, a rejection adding only the error advisory;
\* two resends are never in flight together.
C11_ResendOnlyTogglesBusy ==
    /\ []((FormShown /\ pendingVerification /\ ~loading) => ENABLED resendVerificationCode)
    /\ [](Cardinality({i \in 1..Len(ops) : ops[i].kind = "resend"}) <= 1)
    /\ [][ /\ Started("resend")
              => /\ pendingVerification
                 /\ ~loading
                 /\ loading'
                 /\ ops'[Len(ops')].pc = "prepare"
                 /\ ops'[Len(ops')].resp.state = "none"
                 /\ UNCHANGED <<pendingVerification, code, email, password, errors,
                                agreedToTerms, nav, backend, isSignedIn, mounted>>
           /\ \A i \in 1..Len(ops) :
                (ops[i].kind = "resend" /\ Taken(i))
                => /\ Ended(i)
                   /\ ops[i].pc = "prepare"
                   /\ pendingVerification'
                   /\ ~loading'
                   /\ alerts' = Append(alerts, IF ops[i].resp.state = "ok"
                                               THEN CodeResentAlert
                                               ELSE ResendFailedAlert)
                   /\ UNCHANGED <<pendingVerification, code, email, password, errors,
                                  agreedToTerms, nav, backend, isSignedIn, mounted>>
      ]_vars

\* A resend has failed: the verification view is still up, with the error advisory
C11_Witness ==
    /\ pendingVerification
    /\ ~loading
    /\ ops = <<>>
    /\ alerts = <<ResendFailedAlert>>
    /\ FormShown

\* The credential flow has an operation in flight / the social flow has one
CredentialOpInFlight == \E i \in 1..Len(ops) : ops[i].kind \in {"signup", "verify", "resend"}
SocialOpInFlight == \E i \in 1..Len(ops) : ops[i].kind = "social"

\* C12 as stated: the credential flow counts as in progress in Submitting,
\* PendingVerification and Verifying, and is never in progress together with a
\* social delegation.
C12_FlowsExclusive ==
    ~(SocialOpInFlight /\ (CredentialOpInFlight \/ (FormShown /\ pendingVerification)))

\* C12 amended: a credential operation (submission, verification, resend) and a
\* social delegation are never in flight together: a delegation cannot be started
\* while a credential operation is in flight, nor a credential operation while a
\* delegation is in flight.  The verification view with loading clear does not
\* block a delegation.
C12_OperationsExclusive ==
    /\ [](~(SocialOpInFlight /\ CredentialOpInFlight))
    /\ [][ /\ Started("social") => ~CredentialOpInFlight /\ ~loading
           /\ (Started("signup") \/ Started("verify") \/ Started("resend"))
              => ~SocialOpInFlight /\ ~loading
      ]_vars

\* A delegation started from the verification view is activating its session
C12_Witness ==
    /\ Len(ops) = 1
    /\ ops[1].kind = "social"
    /\ ops[1].pc = "setActive"
    /\ pendingVerification
    /\ FormShown

\* The orchestrator's state, told from the service and the operations in flight
OrchestratorState ==
    IF backend.active # "" THEN "Complete"
    ELSE IF \E i \in 1..Len(ops) : ops[i].kind = "verify" THEN "Verifying"
    ELSE IF \E i \in 1..Len(ops) : ops[i].kind = "signup" THEN "Submitting"
    ELSE IF CodeDispatched THEN "PendingVerification"
    ELSE "Idle"

\* C13: the verification state (the mounted screen's pendingVerification with its
\* code) exists exactly when the orchestrator is in PendingVerification or
\* Verifying: not in Idle or Submitting, from the successful dispatch on, and no
\* longer once a session is active, when the screen that holds it is dropped.
C13_VerificationStateIffPending ==
    /\ ("SignUp" \in mounted /\ pendingVerification)
        <=> (authLoaded /\ OrchestratorState \in {"PendingVerification", "Verifying"})
    /\ OrchestratorState \in {"Idle", "Submitting"} => (~pendingVerification /\ code = <<>>)
    /\ OrchestratorState = "Complete" => "SignUp" \notin mounted

\* Verification has succeeded: the session is active and the screen is gone
C13_Witness ==
    /\ OrchestratorState = "Complete"
    /\ "verifyEmail" \in nav
    /\ "SignUp" \notin mounted
    /\ "useEffect" \in nav

-----------------------------------------------------------------------------
\* A text is blank after trimming / holds a whitespace character / cannot be cut
\* into non-empty local, domain and tld parts around an "@" and a later "."
IsBlank(s) == \A i \in 1..Len(s) : s[i] \in Whitespace
HasWhitespace(s) == \E i \in 1..Len(s) : s[i] \in Whitespace
NoEmailShape(s) ==
    ~\E i \in 2..Len(s), j \in 1..(Len(s) - 1) : s[i] = "@" /\ s[j] = "." /\ j > i + 1

\* C14: a press of Sign Up validates without short-circuit: the email error depends
\* on the email only (required when blank, else invalid format when it has no
\* local@domain.tld shape, none for a whitespace-free text of that shape), the
\* password error on the password only (required when blank, else too short under
\* 8 characters, else none), the missing consent raises the advisory and sets no
\* field error, and the form is valid (the submission starts) exactly when both
\* errors are empty and the consent is given; "bad", "short" and no consent give
\* invalid format, too short, the advisory and no submission.
C14_ValidateNotShortCircuited ==
    [][ handleEmailSignUp =>
        /\ errors'.email =
             IF IsBlank(email) THEN "Email required"
             ELSE IF NoEmailShape(email) THEN "Invalid email format"
             ELSE IF ~HasWhitespace(email) THEN ""
             ELSE errors'.email
        /\ errors'.email \in {"", "Email required", "Invalid email format"}
        /\ ~IsBlank(email) => errors'.email # "Email required"
        /\ errors'.password =
             IF IsBlank(password) THEN "Password required"
             ELSE IF Len(password) < 8 THEN "Password must be at least 8 characters"
             ELSE ""
        /\ alerts' = IF agreedToTerms THEN <<>> ELSE <<TermsAlert>>
        /\ Started("signup") <=> (errors'.email = "" /\ errors'.password = "" /\ agreedToTerms)
        /\ ~Started("signup") => UNCHANGED <<ops, loading, backend>>
        /\ (email = <<"b", "a", "d">> /\ password = <<"s", "h", "o", "r", "t">> /\ ~agreedToTerms)
           => /\ errors' = [email |-> "Invalid email format",
                            password |-> "Password must be at least 8 characters"]
              /\ alerts' = <<TermsAlert>>
              /\ ops' = <<>>
      ]_vars

\* "bad", "short" and no consent have been validated
C14_Witness ==
    /\ email = <<"b", "a", "d">>
    /\ password = <<"s", "h", "o", "r", "t">>
    /\ ~agreedToTerms
    /\ errors = [email |-> "Invalid email format",
                 password |-> "Password must be at least 8 characters"]
    /\ alerts = <<TermsAlert>>
    /\ ops = <<>>

\* The fields hold "a@b.com" and "Abcdef12" and the consent is given
ValidScenario ==
    /\ email = <<"a", "@", "b", ".", "c", "o", "m">>
    /\ password = <<"A", "b", "c", "d", "e", "f", "1", "2">>
    /\ agreedToTerms

\* C15 as stated: for "a@b.com", "Abcdef12" and the consent given, validation
\* returns no errors and valid, and the strength score is 5.
C15_ValidScenarioScoresFive ==
    /\ (ValidScenario /\ FormShown) => passwordStrength = 5
    /\ (ValidScenario /\ ops # <<>> /\ ops[1].kind = "signup") => errors = NoErrors

\* C15 amended: for "a@b.com", "Abcdef12" and the consent given, validation
\* returns no errors and valid (the submission starts), and the strength score is
\* 4: the password has no symbol.
C15_ValidScenarioScoresFour ==
    /\ []((ValidScenario /\ FormShown) => passwordStrength = 4)
    /\ [][ (handleEmailSignUp /\ ValidScenario)
           => /\ errors' = NoErrors
              /\ alerts' = <<>>
              /\ Started("signup")
              /\ passwordStrength' = 4
      ]_vars

\* The valid scenario has been submitted
C15_Witness ==
    /\ ValidScenario
    /\ Len(ops) = 1
    /\ ops[1].kind = "signup"
    /\ ops[1].pc = "create"
    /\ errors = NoErrors
    /\ alerts = <<>>
    /\ passwordStrength = 4

\* The five strength predicates of a password, as the set of those it satisfies
StrengthPredicates(p) ==
    {k \in 1..5 : \/ k = 1 /\ p # <<>>
                  \/ k = 2 /\ Len(p) >= 8
                  \/ k = 3 /\ \E i \in 1..Len(p) : p[i] \in UpperCase
                  \/ k = 4 /\ \E i \in 1..Len(p) : p[i] \in Digits
                  \/ k = 5 /\ \E i \in 1..Len(p) : p[i] \notin UpperCase \cup LowerCase \cup Digits}

\* C16: after any sequence of edits the strength score is the number of the five
\* predicates the current password satisfies: an integer of 0..5, 0 only for the
\* empty password, 5 only when all five hold, never lowered by an edit that keeps
\* every predicate already satisfied.
C16_StrengthCountsPredicates ==
    /\ [](passwordStrength = Cardinality(StrengthPredicates(password)))
    /\ [](passwordStrength \in 0..5)
    /\ [](passwordStrength = 0 <=> password = <<>>)
    /\ [](passwordStrength = 5 <=> StrengthPredicates(password) = 1..5)
    /\ [][ StrengthPredicates(password) \subseteq StrengthPredicates(password')
           => passwordStrength' >= passwordStrength ]_vars

\* A typed password satisfies all five predicates
C16_Witness ==
    /\ passwordStrength = 5
    /\ Len(password) = 8
    /\ StrengthPredicates(password) = 1..5

-----------------------------------------------------------------------------
\* C17: when a call of handleEmailSignUp or verifyEmail is rejected, the advisory
\* shown carries the service's message verbatim if the rejection has one and the
\* handler's generic text otherwise; after a rejected verification the
\* verification view is still up with loading cleared.
C17_BackendMessageOrFallback ==
    [][ \A i \in 1..Len(ops) :
          (Taken(i) /\ ops[i].kind \in {"signup", "verify"} /\ ops[i].resp.state = "rejected")
          => /\ Ended(i)
             /\ alerts' = Append(alerts,
                   [title   |-> IF ops[i].kind = "signup" THEN "Sign Up Error"
                                ELSE "Verification Error",
                    message |-> IF ops[i].resp.errors # <<>>
                                THEN ops[i].resp.errors[1].message
                                ELSE IF ops[i].kind = "signup" THEN "Failed to create account"
                                ELSE "Failed to verify email"])
             /\ ops[i].kind = "verify"
                => /\ pendingVerification /\ pendingVerification'
                   /\ "SignUp" \in mounted'
                   /\ ~loading'
                   /\ nav' = nav
      ]_vars

\* A verification has been refused with a message of the service
C17_Witness ==
    /\ alerts = <<Alert("Verification Error", BackendMessage)>>
    /\ pendingVerification
    /\ FormShown
    /\ ~loading
    /\ ops = <<>>

\* C18: there is no timeout and no cancellation: an invocation waiting for its
\* call stays as it is, with loading set, until the call is answered; with every
\* call eventually answered, every invocation eventually ends and loading is
\* eventually cleared, so the screen is never left with every button disabled.
C18_BusyUntilAnsweredThenCleared ==
    /\ [](ops # <<>> => loading)
    /\ [][ \A i \in Outstanding :
             /\ Len(ops') >= Len(ops)
             /\ ops'[i].kind = ops[i].kind
             /\ ops'[i].pc = ops[i].pc
             /\ loading'
      ]_vars
    /\ (loading ~> ~loading)
    /\ (ops # <<>> ~> ops = <<>>)

\* A resend has been answered and has ended with loading cleared
C18_Witness ==
    /\ ~loading
    /\ ops = <<>>
    /\ alerts = <<CodeResentAlert>>

\* C19: verifyEmail and handleSocialAuth navigate only at the end of an invocation
\* whose setActive of the returned session has resolved; when setActive is rejected
\* nothing is navigated and the error advisory is shown; when no session or no
\* setActive comes back, or the status is not "complete", nothing is navigated.
C19_NavigationFollowsActivation ==
    [][ /\ \A h \in {"verify", "social"} :
             (IF h = "verify" THEN "verifyEmail" ELSE "handleSocialAuth") \in nav' \ nav
             => \E i \in 1..Len(ops) :
                    /\ Ended(i)
                    /\ ops[i].kind = h
                    /\ ops[i].pc = "setActive"
                    /\ ops[i].resp.state = "ok"
                    /\ ops[i].session \in SessionRefs
                    /\ backend.active = ops[i].session
        /\ \A i \in 1..Len(ops) :
             (Taken(i) /\ ops[i].kind \in {"verify", "social"})
             => /\ (ops[i].pc = "setActive" /\ ops[i].resp.state = "rejected")
                   => /\ nav' = nav
                      /\ Ended(i)
                      /\ alerts' = Append(alerts, IF ops[i].kind = "verify"
                                                  THEN VerifyErrorAlert(ops[i].resp.errors)
                                                  ELSE SocialFailedAlert)
                /\ ops[i].pc # "setActive" => nav' = nav
                /\ (/\ ops[i].pc \in {"attempt", "flow"}
                    /\ ops[i].resp.state = "ok"
                    /\ \/ ops[i].resp.createdSessionId = ""
                       \/ ops[i].kind = "social" /\ ~ops[i].resp.setActive
                       \/ ops[i].kind = "verify" /\ ops[i].resp.status # "complete")
                   => /\ Ended(i)
                      /\ UNCHANGED <<nav, alerts, backend, isSignedIn>>
      ]_vars

\* The activation of a session returned by a provider was rejected: the advisory
\* is up and nothing was navigated
C19_Witness ==
    /\ alerts = <<SocialFailedAlert>>
    /\ backend.created # {}
    /\ ~backend.account
    /\ backend.active = ""
    /\ nav = {}
    /\ ~isSignedIn
    /\ ops = <<>>

\* C20: within one lifetime of the screen pendingVerification only goes from false
\* to true, and only at the end of a handleEmailSignUp whose create and prepare
\* both resolved; once it is true the credential form cannot be submitted again
\* and signUp.create is never called again.
C20_PendingVerificationMonotonic ==
    /\ [](pendingVerification => ~ENABLED handleEmailSignUp)
    /\ [](pendingVerification => \A i \in 1..Len(ops) : ops[i].kind # "signup")
    /\ [][ /\ pendingVerification => pendingVerification'
           /\ (~pendingVerification /\ pendingVerification')
              => \E i \in 1..Len(ops) :
                    /\ Ended(i)
                    /\ ops[i].kind = "signup"
                    /\ ops[i].pc = "prepare"
                    /\ ops[i].resp.state = "ok"
           /\ pendingVerification
              => /\ ~Started("signup")
                 /\ \A i \in 1..Len(ops') : ops'[i].pc # "create"
      ]_vars

\* A verification failed without a message: the verification view is still up
C20_Witness ==
    /\ pendingVerification
    /\ FormShown
    /\ alerts = <<Alert("Verification Error", "Failed to verify email")>>
    /\ ops = <<>>
    /\ backend.account

====
